---- MODULE Spec2Model ----
(***************************************************************************)
(* Model of streamlit_app.py: the hit-chart application.                   *)
(*                                                                         *)
(* Numbers are fixed point:                                                *)
(*   angles in milli-degrees, radians and sin/cos in units of 1e-4,        *)
(*   the distance scale and the jittered distance in units of 1e-4,        *)
(*   plot coordinates in hundredths (the code rounds to 2 decimals).       *)
(* Strings of the source that are not ASCII are transliterated:            *)
(*   "all_batters" / "all_games" / "all" are the sidebar's "all" options,  *)
(*   "straight" / "unknown" are the two pitch types the filter names,      *)
(*   "game" is the column the loader adds, X and Y the derived columns.    *)
(* A memo string is a sequence of one-character strings; the characters    *)
(* "dotless_i", "long_s", "fullwidth_4", "fullwidth_8" and "superscript_2" *)
(* stand for U+0131, U+017F, U+FF14, U+FF18 and U+00B2.                    *)
(***************************************************************************)
EXTENDS Integers, Sequences, FiniteSets, TLC

VARIABLES
    memo,           \* the memo cell handed to parse_memo_to_xy_random_fixed
    parsed,         \* what that call returned and the values it computed
    rng,            \* state of the module-level random generator
    pandas_strict,  \* installed pandas rejects a 2-column assignment of an
                    \* empty Series (version dependent)
    dir,            \* the data folder: whether it exists, its *.csv listing
    image,          \* whether the background image file exists
    cache,          \* st.cache_data entry of load_and_preprocess_data
    sel,            \* the session's widget values
    run,            \* what the last script run did
    lastLoad        \* the last execution of load_and_preprocess_data's body

vars == <<memo, parsed, rng, pandas_strict, dir, image, cache, sel, run,
          lastLoad>>

\* ------------------------------------------------------------------ bounds
MaxMemoLen == 2
RngMod == 16
MaxFiles == 2

\* --------------------------------------------------------------- constants
SEED == 42
AngleRangeDefault == 50
DistanceRangeDefault == 1000
a_scale == 12
b_scale == 8

RANK_TO_DISTANCE ==
    [r \in 1..7 |->
        CASE r = 1 -> 10 [] r = 2 -> 65 [] r = 3 -> 110 [] r = 4 -> 155
          [] r = 5 -> 195 [] r = 6 -> 240 [] r = 7 -> 290]

DIRECTION_TO_ANGLE ==
    [B |-> -46500, C |-> -42200, D |-> -38000, E |-> -34200,
     F |-> -30000, G |-> -26000, H |-> -22150, I |-> -18000, J |-> -14000,
     K |-> -10000, L |-> -6000, M |-> -2500, N |-> 1500, O |-> 5500,
     P |-> 9500, Q |-> 13500, R |-> 17500, S |-> 21500, T |-> 25500,
     U |-> 29500, V |-> 33500, W |-> 37500, X |-> 41500, Y |-> 45500]

\* ------------------------------------------------------- values and strings
None == <<>>
Float(v) == <<v>>
NaN == "NaN"

UpperLetters ==
    {"A", "B", "C", "D", "E", "F", "G", "H", "I", "J", "K", "L", "M",
     "N", "O", "P", "Q", "R", "S", "T", "U", "V", "W", "X", "Y", "Z"}

LowerToUpper ==
    [a |-> "A", b |-> "B", c |-> "C", d |-> "D", e |-> "E", f |-> "F",
     g |-> "G", h |-> "H", i |-> "I", j |-> "J", k |-> "K", l |-> "L",
     m |-> "M", n |-> "N", o |-> "O", p |-> "P", q |-> "Q", r |-> "R",
     s |-> "S", t |-> "T", u |-> "U", v |-> "V", w |-> "W", x |-> "X",
     y |-> "Y", z |-> "Z", dotless_i |-> "I", long_s |-> "S"]

\* a parser that forgets .upper()
upper_none(c) == c

\* str.upper() of one character
upper(c) == IF c \in DOMAIN LowerToUpper THEN LowerToUpper[c] ELSE c

DigitValue ==
    [c \in {"0", "1", "2", "3", "4", "5", "6", "7", "8", "9",
            "fullwidth_4", "fullwidth_8"} |->
        CASE c = "0" -> 0 [] c = "1" -> 1 [] c = "2" -> 2 [] c = "3" -> 3
          [] c = "4" -> 4 [] c = "5" -> 5 [] c = "6" -> 6 [] c = "7" -> 7
          [] c = "8" -> 8 [] c = "9" -> 9
          [] c = "fullwidth_4" -> 4 [] c = "fullwidth_8" -> 8]

\* int() of one character: the value, or ValueError
ValueError == -1
int(c) == IF c \in DOMAIN DigitValue THEN DigitValue[c] ELSE ValueError

\* a memo cell: a str, the float NaN of a missing cell, or a number
Str(s) == [kind |-> "str", s |-> s]
NaNMemo == [kind |-> "nan", s |-> <<>>]
NumMemo == [kind |-> "num", s |-> <<>>]
isinstance_str(m) == m.kind = "str"

\* --------------------------------------------------------------- arithmetic
RoundDiv(n, d) == (n + (d \div 2)) \div d

\* math.radians: milli-degrees to 1e-4 radians
radians(mdeg) == RoundDiv(mdeg * 31416, 180000)

\* math.sin and math.cos on 1e-4 radians, in units of 1e-4 (|r| < 1 rad)
sin(r) ==
    LET r2 == RoundDiv(r * r, 10000)
        t3 == RoundDiv(r2 * r, 60000)
        t5 == RoundDiv(t3 * r2, 200000)
    IN  r - t3 + t5

cos(r) ==
    LET r2 == RoundDiv(r * r, 10000)
    IN  10000 - RoundDiv(r2, 2) + RoundDiv(r2 * r2, 240000)

\* ------------------------------------------------------------ random source
\* random.random(): the generator's next state; the draw is state / RngMod
random_next(state) == (5 * state + 3) % RngMod

\* a script that never seeds the generator
seed_off(state) == state

\* random.seed(42)
seed(state) == SEED % RngMod

\* a + b * random()
uniform_scaled(a, b, u) == a + ((b * u) \div RngMod)

\* a + (b - a) * random() for the draw u / RngMod
uniform(a, b, u) == a + (((b - a) * u) \div RngMod)

\* ---------------------------------------------- parse_memo_to_xy_random_fixed
\* The call's result: the returned pair (X, Y), the generator state it leaves,
\* and the jittered angle (milli-degrees) and distance (1e-4) it computed.
NullPair(state) ==
    [X |-> None, Y |-> None, rng |-> state, drew |-> FALSE,
     angle_deg |-> 0, distance |-> 0]

parse_memo_to_xy_random_fixed(m, state, angle_range, distance_range) ==
    IF isinstance_str(m) /\ Len(m.s) >= 2
    THEN LET direction == upper(m.s[1])
             distance_rank == int(m.s[2])
         IN  IF distance_rank = ValueError
             THEN NullPair(state)
             ELSE IF direction \notin DOMAIN DIRECTION_TO_ANGLE
                     \/ distance_rank \notin DOMAIN RANK_TO_DISTANCE
                  THEN NullPair(state)
                  ELSE LET angle_center == DIRECTION_TO_ANGLE[direction]
                           base_distance == RANK_TO_DISTANCE[distance_rank]
                           s1 == random_next(state)
                           angle_deg ==
                               angle_center
                                 + uniform(-angle_range, angle_range, s1)
                           s2 == random_next(s1)
                           distance ==
                               base_distance
                                 * uniform(10000 - distance_range,
                                           10000 + distance_range, s2)
                           angle_rad == radians(angle_deg)
                           dist_c == RoundDiv(distance, 100)
                           x == RoundDiv(RoundDiv(dist_c * a_scale, 10)
                                           * sin(angle_rad), 10000)
                           y == RoundDiv(RoundDiv(dist_c * b_scale, 10)
                                           * cos(angle_rad), 10000)
                       IN  [X |-> Float(x), Y |-> Float(y), rng |-> s2,
                            drew |-> TRUE,
                            angle_deg |-> angle_deg, distance |-> distance]
    ELSE NullPair(state)

\* ------------------------------------------------------------- CSV files
\* One row of a CSV file as pandas reads it; a cell of a column the file does
\* not have is NaN after the concat.
Row(b, p, h, m, ball, strike) ==
    [Batter |-> b, PitchType |-> p, HitType |-> h, Memo |-> m,
     Ball |-> ball, Strike |-> strike, game |-> NaN, X |-> None, Y |-> None]

required_cols == {"Batter", "PitchType", "HitType", "Memo"}
CountCols == {"Ball", "Strike"}

CsvFile(name) ==
    CASE name = "g1.csv" ->
           [readable |-> TRUE, columns |-> required_cols \cup CountCols,
            rows |-> << Row("Sato", "straight", "goro",
                            Str(<<"M", "4">>), Float(2), Float(1)),
                        Row("Abe", "curve", "fly",
                            Str(<<"b", "7">>), Float(0), Float(1)),
                        Row("Sato", "unknown", "goro",
                            Str(<<"Z", "9">>), Float(2), Float(1)) >>]
      [] name = "g2.csv" ->
           [readable |-> TRUE, columns |-> required_cols,
            rows |-> << Row("Abe", "straight", "fly",
                            Str(<<"Y", "1">>), None, None),
                        Row("Sato", "curve", NaN, NaNMemo, None, None),
                        Row(NaN, NaN, "goro",
                            Str(<<"H", "4", "x">>), None, None) >>]
      [] name = "bad.csv" ->
           [readable |-> FALSE, columns |-> {}, rows |-> << >>]
      [] name = "nomemo.csv" ->
           [readable |-> TRUE,
            columns |-> {"Batter", "PitchType", "HitType"} \cup CountCols,
            rows |-> << Row("Sato", "straight", "goro", NaNMemo,
                            Float(1), Float(1)) >>]
      [] name = "nobatter.csv" ->
           [readable |-> TRUE,
            columns |-> {"PitchType", "HitType", "Memo"},
            rows |-> << Row(NaN, "straight", "goro",
                            Str(<<"M", "4">>), None, None) >>]
      [] name = "nopitch.csv" ->
           [readable |-> TRUE,
            columns |-> {"Batter", "HitType", "Memo"},
            rows |-> << Row("Sato", NaN, "goro",
                            Str(<<"M", "4">>), None, None) >>]
      [] name = "nohit.csv" ->
           [readable |-> TRUE,
            columns |-> {"Batter", "PitchType", "Memo"},
            rows |-> << Row("Sato", "straight", NaN,
                            Str(<<"M", "4">>), None, None) >>]
      [] name = "empty.csv" ->
           [readable |-> TRUE, columns |-> required_cols \cup CountCols,
            rows |-> << >>]

AllFiles ==
    {"g1.csv", "g2.csv", "bad.csv", "nomemo.csv", "nobatter.csv",
     "nopitch.csv", "nohit.csv", "empty.csv"}

SessionFiles == {"g1.csv", "g2.csv"}

\* the listings glob.glob can return: distinct files, in any order
Listings(files) ==
    UNION {{l \in [1..n -> files] :
               \A i, j \in 1..n : i # j => l[i] # l[j]} : n \in 0..MaxFiles}

\* --------------------------------------------------------------- DataFrames
EmptyDataFrame == [columns |-> {}, rows |-> << >>]

\* DataFrame.empty: an axis of length 0
empty(df) == df.columns = {} \/ df.rows = << >>

\* pd.read_csv(file) followed by df["game"] = os.path.basename(file)
TagRows(rows, name) == [i \in 1..Len(rows) |-> [rows[i] EXCEPT !.game = name]]

RECURSIVE concat_rows(_)
concat_rows(names) ==
    IF names = << >> THEN << >>
    ELSE TagRows(CsvFile(Head(names)).rows, Head(names))
           \o concat_rows(Tail(names))

\* pd.concat(df_list, ignore_index=True)
concat(df_list) ==
    [columns |-> UNION {CsvFile(df_list[i]).columns \cup {"game"} :
                           i \in 1..Len(df_list)},
     rows |-> concat_rows(df_list)]

\* the files the try block reads, in listing order
read_ok(name) == CsvFile(name).readable

\* a loader that gives up on the whole folder at an unreadable file
df_list_abort(csv_files) ==
    IF \A i \in 1..Len(csv_files) : read_ok(csv_files[i])
    THEN csv_files ELSE << >>

df_list_of(csv_files) == SelectSeq(csv_files, read_ok)

\* df_all['Memo'].apply(parse_memo_to_xy_random_fixed): row by row, in order,
\* each call drawing from the generator the previous call left
RECURSIVE apply_parse(_, _)
apply_parse(rows, state) ==
    IF rows = << >> THEN [rows |-> << >>, rng |-> state]
    ELSE LET out == parse_memo_to_xy_random_fixed(
                        Head(rows).Memo, state,
                        AngleRangeDefault, DistanceRangeDefault)
             rest == apply_parse(Tail(rows), out.rng)
         IN  [rows |-> << [Head(rows) EXCEPT !.X = out.X, !.Y = out.Y] >>
                         \o rest.rows,
              rng |-> rest.rng]

\* df_all.dropna(subset=[X, Y])
has_xy(row) == row.X # None /\ row.Y # None

\* a loader that keeps the rows it could not place
dropna_off(rows) == rows

dropna(rows) == SelectSeq(rows, has_xy)

\* --------------------------------------------------- load_and_preprocess_data
\* The body's outcome: raised or returned df; the st.warning and st.error
\* calls it made; the merged table of line 94 (before the transform); the
\* generator state it leaves.
LoadOut(raised, df, merged, nread, warnings, errors, state) ==
    [raised |-> raised, df |-> df, merged |-> merged, nread |-> nread,
     warnings |-> warnings, errors |-> errors, rng |-> state]

load_and_preprocess_data(csv_files, state, strict) ==
    IF csv_files = << >>
    THEN LoadOut(FALSE, EmptyDataFrame, EmptyDataFrame, 0, 0, 0, state)
    ELSE
    LET df_list == df_list_of(csv_files)
        warnings == Len(csv_files) - Len(df_list)
    IN  IF df_list = << >>
        THEN LoadOut(FALSE, EmptyDataFrame, EmptyDataFrame, 0, warnings, 0,
                     state)
        ELSE
        LET merged == concat(df_list)
            n == Len(df_list)
        IN  IF "Memo" \notin merged.columns
            THEN \* KeyError at df_all['Memo']
                 LoadOut(TRUE, EmptyDataFrame, merged, n, warnings, 0, state)
            ELSE IF merged.rows = << >> /\ strict
            THEN \* ValueError: Columns must be same length as key
                 LoadOut(TRUE, EmptyDataFrame, merged, n, warnings, 0, state)
            ELSE
            LET applied == apply_parse(merged.rows, state)
                df_xy == [columns |-> merged.columns \cup {"X", "Y"},
                          rows |-> applied.rows]
            IN  IF ~(required_cols \subseteq df_xy.columns)
                THEN LoadOut(FALSE, EmptyDataFrame, merged, n, warnings, 1,
                             applied.rng)
                ELSE LoadOut(FALSE,
                             [df_xy EXCEPT !.rows = dropna(df_xy.rows)],
                             merged, n, warnings, 0, applied.rng)

\* ----------------------------------------------------------- sidebar widgets
\* a count selectbox's value: None (no widget), the "all" option, or an int
CountNone == [kind |-> "None", v |-> 0]
CountAll == [kind |-> "all", v |-> 0]
CountInt(n) == [kind |-> "int", v |-> n]

RowsOf(df) == {df.rows[i] : i \in 1..Len(df.rows)}

batters(df) ==
    {"all_batters"} \cup ({r.Batter : r \in RowsOf(df)} \ {NaN})
games(df) ==
    {"all_games"} \cup ({r.game : r \in RowsOf(df)} \ {NaN})
hit_types(df) == {r.HitType : r \in RowsOf(df)} \ {NaN}
pitch_filters == {"all", "straight", "breaking"}
has_counts(df) == "Ball" \in df.columns /\ "Strike" \in df.columns
ball_options(df) ==
    IF has_counts(df)
    THEN {CountAll} \cup {CountInt(r.Ball[1]) :
                             r \in {q \in RowsOf(df) : q.Ball # None}}
    ELSE {CountNone}
strike_options(df) ==
    IF has_counts(df)
    THEN {CountAll} \cup {CountInt(r.Strike[1]) :
                             r \in {q \in RowsOf(df) : q.Strike # None}}
    ELSE {CountNone}

\* the values the widgets start with: first option, multiselect default
Defaults(df) ==
    [set |-> TRUE,
     batter |-> "all_batters", game |-> "all_games",
     hit_types |-> hit_types(df), pitch_filter |-> "all",
     ball |-> IF has_counts(df) THEN CountAll ELSE CountNone,
     strike |-> IF has_counts(df) THEN CountAll ELSE CountNone]

\* no widget has been rendered in this session
Unset ==
    [set |-> FALSE,
     batter |-> "all_batters", game |-> "all_games",
     hit_types |-> {}, pitch_filter |-> "all",
     ball |-> CountNone, strike |-> CountNone]

\* ---------------------------------------------------------------- filtering
by_batter(rows, s) ==
    LET keep(r) == r.Batter = s.batter
    IN  IF s.batter # "all_batters" THEN SelectSeq(rows, keep) ELSE rows

by_game(rows, s) ==
    LET keep(r) == r.game = s.game
    IN  IF s.game # "all_games" THEN SelectSeq(rows, keep) ELSE rows

by_hit_types(rows, s) ==
    LET keep(r) == r.HitType \in s.hit_types
    IN  IF s.hit_types # {} THEN SelectSeq(rows, keep) ELSE rows

by_pitch(rows, s) ==
    LET straight(r) == r.PitchType = "straight"
        breaking(r) == r.PitchType \notin {"straight", "unknown"}
    IN  IF s.pitch_filter = "straight" THEN SelectSeq(rows, straight)
        ELSE IF s.pitch_filter = "breaking" THEN SelectSeq(rows, breaking)
        ELSE rows

by_ball(rows, s) ==
    LET keep(r) == r.Ball = Float(s.ball.v)
    IN  IF s.ball # CountNone /\ s.ball # CountAll
        THEN SelectSeq(rows, keep) ELSE rows

by_strike(rows, s) ==
    LET keep(r) == r.Strike = Float(s.strike.v)
    IN  IF s.strike # CountNone /\ s.strike # CountAll
        THEN SelectSeq(rows, keep) ELSE rows

\* df_filtered, by the steps of main in their order
filter_rows(rows, s) ==
    by_strike(by_ball(by_pitch(by_hit_types(by_game(by_batter(rows, s), s),
                                            s), s), s), s)

\* ------------------------------------------------------------------ plotting
\* the hover texts: KeyError without a Ball or Strike column, ValueError on
\* int(NaN) for a row whose count is missing
hover_raises(columns, rows) ==
    \/ "Ball" \notin columns
    \/ "Strike" \notin columns
    \/ \E i \in 1..Len(rows) : rows[i].Ball = None \/ rows[i].Strike = None

\* ------------------------------------------------------------ the script run
NoLoad ==
    [ran |-> FALSE, files |-> << >>, again |-> FALSE,
     out |-> LoadOut(FALSE, EmptyDataFrame, EmptyDataFrame, 0, 0, 0, 0)]

NoCache == [present |-> FALSE, out |-> NoLoad.out]

RunOut(outcome, df, rows, s, warnings, errors, loaded, info) ==
    [outcome |-> outcome, df_all |-> df, df_filtered |-> rows, sel |-> s,
     warnings |-> warnings, errors |-> errors, loaded |-> loaded,
     info |-> info, at |-> dir]

NoRun ==
    [outcome |-> "none", df_all |-> EmptyDataFrame, df_filtered |-> << >>,
     sel |-> Unset, warnings |-> 0, errors |-> 0, loaded |-> FALSE,
     info |-> FALSE, at |-> [exists |-> FALSE, files |-> << >>]]

\* One execution of the script from its first line with the widget values s:
\* seed, main's path checks, the memoized load, the filters, the plot.
Script(s) ==
    LET state0 == seed(rng)
    IN
    IF ~image \/ ~dir.exists
    THEN /\ run' = RunOut("error_missing_paths", EmptyDataFrame, << >>,
                          Unset, 0, 1, FALSE, FALSE)
         /\ rng' = state0
         /\ sel' = Unset
         /\ UNCHANGED <<cache, lastLoad>>
    ELSE
    LET hit == cache.present
    IN
    \E out \in {IF hit THEN cache.out
                ELSE load_and_preprocess_data(dir.files, state0,
                                              pandas_strict)} :
        /\ rng' = IF hit THEN state0 ELSE out.rng
        /\ lastLoad' = IF hit THEN lastLoad
                       ELSE [ran |-> TRUE, files |-> dir.files,
                             again |-> lastLoad.ran
                                         /\ lastLoad.files = dir.files,
                             out |-> out]
        /\ cache' = IF hit \/ out.raised THEN cache
                    ELSE [present |-> TRUE, out |-> out]
        /\ IF out.raised
           THEN /\ run' = RunOut("load_raised", EmptyDataFrame, << >>, Unset,
                                 out.warnings, 0, TRUE, FALSE)
                /\ sel' = Unset
           ELSE IF empty(out.df)
           THEN /\ run' = RunOut("error_no_data", out.df, << >>, Unset,
                                 out.warnings, out.errors + 1, ~hit, FALSE)
                /\ sel' = Unset
           ELSE
           LET df_all == out.df
               w == IF s.set THEN s ELSE Defaults(df_all)
           IN  \E df_filtered \in {filter_rows(df_all.rows, w)} :
               /\ sel' = w
               /\ IF hover_raises(df_all.columns, df_filtered)
                  THEN run' = RunOut("plot_raised", df_all, df_filtered, w,
                                     out.warnings, out.errors, ~hit, FALSE)
                  ELSE run' = RunOut("rendered", df_all, df_filtered, w,
                                     out.warnings, out.errors, ~hit,
                                     df_filtered = << >>)

\* --------------------------------------------------------------- the session
\* the script runs again with the session's widget values
Rerun ==
    /\ Script(sel)
    /\ UNCHANGED <<memo, parsed, pandas_strict, dir, image>>

\* the user changes one sidebar widget; the script runs with the new value
ChangeWidget ==
    /\ sel.set
    /\ LET df == run.df_all
       IN  \/ \E v \in batters(df) \ {sel.batter} :
                 Script([sel EXCEPT !.batter = v])
           \/ \E v \in games(df) \ {sel.game} :
                 Script([sel EXCEPT !.game = v])
           \/ \E v \in (SUBSET hit_types(df)) \ {sel.hit_types} :
                 Script([sel EXCEPT !.hit_types = v])
           \/ \E v \in pitch_filters \ {sel.pitch_filter} :
                 Script([sel EXCEPT !.pitch_filter = v])
           \/ \E v \in ball_options(df) \ {sel.ball} :
                 Script([sel EXCEPT !.ball = v])
           \/ \E v \in strike_options(df) \ {sel.strike} :
                 Script([sel EXCEPT !.strike = v])
    /\ UNCHANGED <<memo, parsed, pandas_strict, dir, image>>

\* --------------------------------------------- the parser on its own inputs
MemoChars ==
    {"A", "B", "b", "H", "I", "M", "m", "S", "Y", "y", "Z", "a",
     "0", "1", "4", "7", "8", "9", "-",
     "dotless_i", "long_s", "fullwidth_4", "fullwidth_8", "superscript_2"}

MemoStrings ==
    UNION {[1..n -> MemoChars] : n \in 0..MaxMemoLen}

MemoValues == {Str(s) : s \in MemoStrings} \cup {NaNMemo, NumMemo}

NotParsed == [done |-> FALSE, out |-> NullPair(0)]

\* generator states a new process can start from (operating-system entropy)
Entropy == {0, RngMod - 1}

\* the session part of the state before the first script run
Fresh ==
    /\ cache = NoCache
    /\ sel = Unset
    /\ run = NoRun
    /\ lastLoad = NoLoad

InitParse ==
    /\ memo \in MemoValues
    /\ rng \in 0..(RngMod - 1)
    /\ parsed = NotParsed
    /\ pandas_strict = TRUE
    /\ dir = [exists |-> FALSE, files |-> << >>]
    /\ image = FALSE
    /\ Fresh

ParseMemo ==
    /\ ~parsed.done
    /\ LET out == parse_memo_to_xy_random_fixed(
                      memo, rng, AngleRangeDefault, DistanceRangeDefault)
       IN  /\ parsed' = [done |-> TRUE, out |-> out]
           /\ rng' = out.rng
    /\ UNCHANGED <<memo, pandas_strict, dir, image, cache, sel, run, lastLoad>>

NextParse == ParseMemo

SpecParse == InitParse /\ [][NextParse]_vars

\* ------------------------------------------- one session over a fixed folder
Folders(files) ==
    {[exists |-> TRUE, files |-> l] : l \in Listings(files)}
      \cup {[exists |-> FALSE, files |-> << >>]}

InitView ==
    /\ memo = NaNMemo
    /\ parsed = NotParsed
    /\ rng \in Entropy
    /\ pandas_strict \in BOOLEAN
    /\ dir \in Folders(AllFiles)
    /\ image \in BOOLEAN
    /\ Fresh

NextView == Rerun \/ ChangeWidget

SpecView == InitView /\ [][NextView]_vars

\* ------------------------------- sessions while the files change underneath
\* the folder's content changes on disk
ChangeFiles ==
    /\ dir' \in Folders(SessionFiles) \ {dir}
    /\ UNCHANGED <<memo, parsed, rng, pandas_strict, image, cache, sel, run,
                   lastLoad>>

\* the server process starts again: empty cache, new session, and a
\* generator initialised from the operating system's entropy
Restart ==
    /\ run.outcome # "none"
    /\ rng' \in Entropy
    /\ cache' = NoCache
    /\ sel' = Unset
    /\ run' = NoRun
    /\ UNCHANGED <<memo, parsed, pandas_strict, dir, image, lastLoad>>

Init ==
    /\ memo = NaNMemo
    /\ parsed = NotParsed
    /\ rng \in Entropy
    /\ pandas_strict = TRUE
    /\ dir \in Folders(SessionFiles)
    /\ image = TRUE
    /\ Fresh

Next == Rerun \/ ChangeWidget \/ ChangeFiles \/ Restart

Spec == Init /\ [][Next]_vars

\* ===================================================================== claims
ViewOutcomes == {"rendered", "plot_raised"}
LettersBY == UpperLetters \ {"A", "Z"}
LowerBY ==
    {"b", "c", "d", "e", "f", "g", "h", "i", "j", "k", "l", "m",
     "n", "o", "p", "q", "r", "s", "t", "u", "v", "w", "x", "y"}
Digits17 == {"1", "2", "3", "4", "5", "6", "7"}

\* C1 as stated: a string of length 2 or more gets a non-null pair exactly
\* when its first character is a letter B-Y in either case and its second
\* character is a digit 1-7.
C1_AsciiCodesOnly ==
    (parsed.done /\ isinstance_str(memo) /\ Len(memo.s) >= 2)
        => (has_xy(parsed.out)
              <=> (memo.s[1] \in LettersBY \cup LowerBY
                     /\ memo.s[2] \in Digits17))

\* C1 amended: a string of length 2 or more gets a non-null pair exactly when
\* its first character is one that str.upper() maps to a letter B-Y (the
\* ASCII letters and U+0131, U+017F) and its second character is one that
\* int() converts to 1..7 (the ASCII digits and the other decimal digits of
\* those values, such as U+FF14); every other cell gets the null pair, with
\* X and Y null together.
C1_ParserAcceptance ==
    parsed.done
        => /\ (parsed.out.X = None) <=> (parsed.out.Y = None)
           /\ has_xy(parsed.out)
                <=> /\ isinstance_str(memo)
                    /\ Len(memo.s) >= 2
                    /\ memo.s[1] \in LettersBY \cup LowerBY
                                       \cup {"dotless_i", "long_s"}
                    /\ memo.s[2] \in Digits17 \cup {"fullwidth_4"}

C1_Witness ==
    /\ parsed.done
    /\ has_xy(parsed.out)
    /\ isinstance_str(memo)
    /\ Len(memo.s) >= 2
    /\ memo.s[1] = "b"
    /\ memo.s[2] = "7"

\* C2 as stated: with an empty hit-type selection the filtered view has no
\* rows.
C2_EmptyHitTypesNoRows ==
    (run.outcome \in ViewOutcomes /\ run.sel.hit_types = {})
        => run.df_filtered = << >>

\* C3 as stated: when a required column is missing from the merged table the
\* load returns an empty result and signals one schema error, without
\* raising, whichever of the four columns it is.
C3_MissingColumnIsSchemaError ==
    (lastLoad.ran /\ lastLoad.out.nread > 0
       /\ ~(required_cols \subseteq lastLoad.out.merged.columns))
        => /\ ~lastLoad.out.raised
           /\ empty(lastLoad.out.df)
           /\ lastLoad.out.errors = 1

\* C4: every unreadable file costs exactly one warning and nothing else; the
\* rows of every readable file are in the merged table, all of them, in
\* their order, tagged with the file's name, and the merged table has no
\* other rows; when no file could be read the load returns an empty result
\* without raising.
C4_PartialSuccess ==
    lastLoad.ran
        => LET files == lastLoad.files
               out == lastLoad.out
               good == {i \in 1..Len(files) : CsvFile(files[i]).readable}
           IN  /\ out.warnings = Len(files) - Cardinality(good)
               /\ out.nread = Cardinality(good)
               /\ \A i \in good :
                     LET from_i(r) == r.game = files[i]
                         rows == CsvFile(files[i]).rows
                     IN  /\ Len(SelectSeq(out.merged.rows, from_i))
                               = Len(rows)
                         /\ \A k \in 1..Len(rows) :
                               SelectSeq(out.merged.rows, from_i)[k]
                                 = [rows[k] EXCEPT !.game = files[i]]
               /\ \A j \in 1..Len(out.merged.rows) :
                     \E i \in good : out.merged.rows[j].game = files[i]
               /\ good = {} => (~out.raised /\ empty(out.df)
                                  /\ out.errors = 0)

C4_Witness ==
    /\ lastLoad.ran
    /\ lastLoad.out.warnings = 1
    /\ lastLoad.out.nread = 1
    /\ lastLoad.out.merged.rows # << >>
    /\ ~empty(lastLoad.out.df)

\* C5 as stated: without Ball and Strike columns a script run that reaches
\* the filters finishes without raising, and its filtered view is the
\* dataset restricted by the batter, game, hit-type and pitch-type
\* selections.
C5_NoCountColumnsNoError ==
    (run.outcome \in ViewOutcomes
       /\ "Ball" \notin run.df_all.columns
       /\ "Strike" \notin run.df_all.columns)
        => /\ run.outcome = "rendered"
           /\ LET keep(r) ==
                      /\ run.sel.batter = "all_batters"
                            \/ r.Batter = run.sel.batter
                      /\ run.sel.game = "all_games" \/ r.game = run.sel.game
                      /\ r.HitType \in run.sel.hit_types
                      /\ \/ run.sel.pitch_filter = "all"
                         \/ /\ run.sel.pitch_filter = "straight"
                            /\ r.PitchType = "straight"
                         \/ /\ run.sel.pitch_filter = "breaking"
                            /\ r.PitchType \notin {"straight", "unknown"}
              IN  run.df_filtered = SelectSeq(run.df_all.rows, keep)

\* C6: when a load returns rows, the returned rows are exactly the rows of
\* the merged table whose memo gives a known direction and a known rank, in
\* their order, and each of them has both X and Y.
ValidPair(m) ==
    /\ m.kind = "str"
    /\ Len(m.s) >= 2
    /\ upper(m.s[1]) \in LettersBY
    /\ int(m.s[2]) \in 1..7

C6_RowsIffMemoParses ==
    (lastLoad.ran /\ ~lastLoad.out.raised /\ lastLoad.out.df.rows # << >>)
        => LET out == lastLoad.out
               valid(r) == ValidPair(r.Memo)
               kept == SelectSeq(out.merged.rows, valid)
           IN  /\ Len(out.df.rows) = Len(kept)
               /\ \A j \in 1..Len(kept) :
                     /\ [out.df.rows[j] EXCEPT !.X = None, !.Y = None]
                           = kept[j]
                     /\ out.df.rows[j].X # None
                     /\ out.df.rows[j].Y # None

C6_Witness ==
    /\ lastLoad.ran
    /\ ~lastLoad.out.raised
    /\ lastLoad.out.df.rows # << >>
    /\ Len(lastLoad.out.df.rows) < Len(lastLoad.out.merged.rows)

\* C7 as stated: the dataset a script run uses is the result of loading the
\* folder's content as it is at that run.
C7_DatasetIsCurrentContent ==
    (run.outcome \in ViewOutcomes \cup {"error_no_data"})
        => LET fresh == load_and_preprocess_data(
                            run.at.files, SEED % RngMod, pandas_strict)
           IN  ~fresh.raised /\ run.df_all = fresh.df

\* C8: a load of the same listing as the load before it returns the same
\* table, X and Y included; and between any two consecutive loads, a row
\* whose memo and whose predecessors' memos are the same in both gets the
\* same X and Y.
SamePrefixSameXY(a, b) ==
    \A j \in 1..Len(a) :
        (j <= Len(b) /\ \A k \in 1..j : a[k].Memo = b[k].Memo)
            => (a[j].X = b[j].X /\ a[j].Y = b[j].Y)

C8_Deterministic ==
    [][(lastLoad.ran /\ lastLoad'.ran)
          => /\ (lastLoad'.files = lastLoad.files)
                   => lastLoad'.out = lastLoad.out
             /\ SamePrefixSameXY(lastLoad.out.df.rows,
                                 lastLoad'.out.df.rows)]_vars

C8_Witness ==
    /\ lastLoad.again
    /\ ~lastLoad.out.raised
    /\ Len(lastLoad.out.df.rows) >= 2

\* C9: with the default ranges, whenever the parser draws, the distance it
\* uses is within 0.9 and 1.1 times the table's distance for the memo's
\* digit, and the angle within 0.05 degrees of the table's angle for the
\* memo's letter.
C9_JitterBound ==
    (parsed.done /\ parsed.out.drew)
        => LET center == DIRECTION_TO_ANGLE[upper(memo.s[1])]
               base == RANK_TO_DISTANCE[int(memo.s[2])]
           IN  /\ parsed.out.angle_deg >= center - 50
               /\ parsed.out.angle_deg <= center + 50
               /\ parsed.out.distance >= base * 9000
               /\ parsed.out.distance <= base * 11000

C9_Witness ==
    /\ parsed.done
    /\ parsed.out.drew
    /\ parsed.out.angle_deg > DIRECTION_TO_ANGLE[upper(memo.s[1])] + 40
    /\ parsed.out.distance > RANK_TO_DISTANCE[int(memo.s[2])] * 10000

\* C10 as stated: the filtered view is the rows of the dataset that satisfy
\* every predicate - batter, game, membership in the hit-type set, pitch
\* category, ball count, strike count - in whichever order the steps are
\* applied, and the dataset is the one that was loaded.
C10_FilterIsConjunction ==
    (run.outcome \in ViewOutcomes)
        => LET w == run.sel
               keep(r) ==
                   /\ w.batter = "all_batters" \/ r.Batter = w.batter
                   /\ w.game = "all_games" \/ r.game = w.game
                   /\ r.HitType \in w.hit_types
                   /\ \/ w.pitch_filter = "all"
                      \/ w.pitch_filter = "straight"
                           /\ r.PitchType = "straight"
                      \/ w.pitch_filter = "breaking"
                           /\ r.PitchType \notin {"straight", "unknown"}
                   /\ w.ball \in {CountNone, CountAll}
                         \/ r.Ball = Float(w.ball.v)
                   /\ w.strike \in {CountNone, CountAll}
                         \/ r.Strike = Float(w.strike.v)
               rows == run.df_all.rows
           IN  /\ run.df_filtered = SelectSeq(rows, keep)
               /\ run.df_filtered
                     = by_batter(by_game(by_hit_types(by_pitch(by_ball(
                           by_strike(rows, w), w), w), w), w), w)
               /\ run.df_all = cache.out.df
====
